---- MODULE Spec2Model ----
(***************************************************************************)
(* Model of nalgonda's AgencyManager (src/src/nalgonda/agency_manager.py): *)
(* the in-memory agency cache, the asyncio.Lock that guards it, and the    *)
(* coroutines that use it.  Coroutines run on one event loop, so a step of *)
(* the model is what one coroutine executes between two suspension points: *)
(* a contended lock acquisition, or the await of the build thread.  The     *)
(* handlers of the session router (src/nalgonda/routers/v1/api/session.py) *)
(* run as tasks of the same loop and use the cache through get_agency and  *)
(* cache_agency.                                                           *)
(***************************************************************************)
EXTENDS Integers, Sequences, FiniteSets, TLC

\* ---- bounds -------------------------------------------------------------
NumTasks == 2          \* concurrent requests (asyncio tasks)
MaxInst == 2           \* Agency objects ever constructed
MaxGen == 2            \* uuid4() identifiers ever generated
MaxGenMixed == 1       \* of which while the other operations are called too

Tasks == 1..NumTasks
AgencyIds == {"a"}     \* agency ids supplied by callers
ThreadIds == {"", "t1"} \* thread ids (the empty string is a str too)

\* ---- Python values ------------------------------------------------------
\* Optional values: None is <<>>, a present value x is <<x>>.
None == <<>>
Some(x) == <<x>>
Opt(S) == {None} \cup {Some(x) : x \in S}
ThreadOpts == Opt(ThreadIds)

\* Python truthiness of a `str | None`: None and "" are falsy.
Truthy(o) == o # None /\ o[1] # ""

\* an identifier that is not fresh: the same one at every call
GenId_Fixed(n) == "g"

\* uuid.uuid4().hex: the n-th generated identifier.
GenId(n) == "g" \o ToString(n)

\* dict operations used on self.cache
EmptyDict == [k \in {} |-> 0]
Put(c, k, v) == [x \in (DOMAIN c) \cup {k} |-> IF x = k THEN v ELSE c[x]]
Pop(c, k) == [x \in (DOMAIN c) \ {k} |-> c[x]]
Lookup(c, k) == IF k \in DOMAIN c THEN Some(c[k]) ELSE None

VARIABLES
    cache,      \* self.cache: cache key -> Agency object (its number)
    locked,     \* self.lock is held
    waiters,    \* self.lock: FIFO of the tasks suspended in acquire()
    task,       \* per task: where its coroutine is suspended, and its locals
    last,       \* the call that returned in the latest step (NoCall if none)
    nextInst,   \* number of the next Agency object to be constructed
    nextGen,    \* number of the next uuid4() identifier
    builtFor,   \* builtFor[i]: the agency id Agency object i was built for
    shadow,     \* the cache as the calls produce it in lock-acquisition order
    created,    \* agency id -> the instances create_agency returned for it, with no
                \* delete_agency_from_cache(id, no thread) and no refresh_thread_id for
                \* it since
    kept,       \* agency id -> the instance create_agency returned for it, with no
                \* later write or removal at its cache key
    req,        \* per task: the HTTP request its route handler is serving
    http,       \* the HTTP response sent in the latest step (NoHttp if none)
    probe,      \* get_cache_key: the arguments of two calls and what they returned
    fac,        \* the agent factory: the stored AgencyConfig and the latest build
    db,         \* the Firestore collections of tools, skills, agencies and agents
    resp,       \* the response of the tool, skill or agency router in the latest step
    summ,       \* SummarizeCode.run: its inputs and how it ended
    chat        \* the Flask backend: the /chat request and its run

\* the variables of the session router and of the key derivation on its own,
\* which the operations of AgencyManager leave alone
aux == <<fac, db, resp, summ, chat>>
ext == <<req, http, probe, aux>>

vars == <<cache, locked, waiters, task, last, nextInst, nextGen, builtFor, shadow, created, kept,
          req, http, probe, fac, db, resp, summ, chat>>

IdleTask == [pc |-> "idle", op |-> "none", aid |-> "", tid |-> None, inst |-> 0,
             new |-> None, stage |-> "", err |-> "", over |-> {}]

NoCall == [task |-> 0, op |-> "none", aid |-> "", tid |-> None, inst |-> 0,
           new |-> None, agency |-> None, rtid |-> None, err |-> ""]

Ret(t, o, a, th, i, n, ag, rt, e) ==
    [task |-> t, op |-> o, aid |-> a, tid |-> th, inst |-> i,
     new |-> n, agency |-> ag, rtid |-> rt, err |-> e]

\* no request being served by the task
NoReq == [handler |-> "none", user |-> "", aid |-> "", tid |-> None, cfg |-> None]

\* no HTTP response sent in this step
NoHttp == [task |-> 0, handler |-> "none", user |-> "", aid |-> "", tid |-> None, cfg |-> None,
           status |-> 0, inst |-> 0, thread_id |-> None, main |-> None]

\* no AgencyConfig under study, nothing built
NoFactory == [config |-> None, result |-> None, nextId |-> 1, saves |-> 0]

\* empty collections, no document id handed out
NoDb == [tool |-> EmptyDict, skill |-> EmptyDict, agency |-> EmptyDict, agent |-> EmptyDict, nextDoc |-> 1]

\* no response of the tool, skill or agency router in this step
NoResp == [op |-> "none", user |-> "", id |-> None, agents |-> <<>>, status |-> 0,
           saved |-> None, ran |-> FALSE, reached |-> FALSE]

\* SummarizeCode.run not called
NoSumm == [state |-> "none", path |-> "", exts |-> {}, prompt |-> "",
           api |-> None, raised |-> None, ret |-> None]

\* no /chat request
NoChat == [pc |-> "idle", thread_id |-> None, run |-> "none", calls |-> 0, rounds |-> 0,
           answered |-> 0, served |-> 0]

\* no call of get_cache_key made on its own
NoProbe == [aid1 |-> "", t1 |-> None, aid2 |-> "", t2 |-> None, k1 |-> None, k2 |-> None]

\* Errors load_agency_from_config can raise
BuildErrors == {"ConfigurationNotFound", "GraphConstructionError"}

\* ---- pure parts of the code --------------------------------------------
\* get_cache_key with the thread id left out of the key
get_cache_key_IgnoresThread(a, th) == a

\* get_cache_key without its `if thread_id` test: None is formatted too
get_cache_key_FormatsNone(a, th) == a \o "/" \o (IF th = None THEN "None" ELSE th[1])

\* get_cache_key: f"{agency_id}/{thread_id}" if thread_id else agency_id
get_cache_key(a, th) == IF Truthy(th) THEN a \o "/" \o th[1] ELSE a

\* get_agency's body: self.cache.get(key, None)
GetResult(c, a, th) == Lookup(c, get_cache_key(a, th))

\* get_agency registering the key it misses: self.cache.setdefault(key, None)
GetEffect_SetDefault(c, a, th) ==
    IF get_cache_key(a, th) \in DOMAIN c THEN c ELSE Put(c, get_cache_key(a, th), 0)

\* the cache after get_agency: dict.get leaves the dict as it is
GetEffect(c, a, th) == c

\* cache_agency keeping the instance a key already has:
\* self.cache.setdefault(key, agency)
CacheEffect_KeepsExisting(c, i, a, th) ==
    IF get_cache_key(a, th) \in DOMAIN c THEN c ELSE Put(c, get_cache_key(a, th), i)

\* cache_agency's body: self.cache[key] = agency
CacheEffect_Moves(c, i, a, th) ==
    Put([x \in (DOMAIN c) \ {get_cache_key(a, None)} |-> c[x]], get_cache_key(a, th), i)

CacheEffect(c, i, a, th) == Put(c, get_cache_key(a, th), i)

\* delete_agency_from_cache dropping the agency-level entry along with the
\* entry of the thread
DeleteEffect_AlsoBareKey(c, a, th) == Pop(Pop(c, get_cache_key(a, th)), a)

\* delete_agency_from_cache's body: self.cache.pop(key, None)
DeleteEffect(c, a, th) == Pop(c, get_cache_key(a, th))

\* create_agency storing whatever the build left, also when it raised
CreateStore_AlsoOnError(c, a, i, e) == Put(c, a, i)

\* create_agency with a cache of capacity one: the new entry evicts the rest
CreateStore_EvictsOthers(c, a, i, e) == IF e = "" THEN Put(EmptyDict, a, i) ELSE c

\* create_agency after the build: self.cache[agency_id] = agency, which is
\* skipped when the awaited build raised.
CreateStore(c, a, i, e) == IF e = "" THEN Put(c, a, i) ELSE c

\* refresh_thread_id moving the instance whatever the thread ids are
ThreadChanged_Always(th, new) == TRUE

\* refresh_thread_id: if thread_id != new_thread_id
ThreadChanged(th, new) == th # new

\* create_agency and the other operations entered without the lock
CanAcquire_Always == TRUE

\* asyncio.Lock.acquire returns without suspending only when the lock is
\* free and nobody is queued for it.
CanAcquire == ~locked /\ waiters = <<>>

\* the lock released on the normal path only (acquire/release without finally)
LockedAfterExit_LeakOnError(raised) == raised

\* `async with self.lock` releases the lock when its body is left, also by
\* an exception.
LockedAfterExit(raised) == FALSE

\* ---- bookkeeping of the acquisition order ------------------------------
\* A call that holds the lock across a suspension (create_agency) is
\* overtaken on the keys that calls acquiring the lock later write.
InProgress(u) == task[u].pc \in {"build", "built"}
MarkOver(tk, t, keys) ==
    [u \in Tasks |-> IF u # t /\ tk[u].pc \in {"build", "built"}
                        THEN [tk[u] EXCEPT !.over = @ \cup keys]
                        ELSE tk[u]]

\* history: the entries of g at the cache keys in ks are no longer vouched for
Drop(g, ks) == [x \in (DOMAIN g) \ ks |-> g[x]]
\* history: create_agency returned instance i for agency id a
Returned(g, a, i) == Put(g, a, (IF a \in DOMAIN g THEN g[a] ELSE {}) \cup {i})

PendingCreates == Cardinality({u \in Tasks : task[u].op = "create" /\ task[u].pc \in {"wait", "build"}})

\* AgencyManager.__init__: an empty cache and a free lock
ManagerInit ==
    /\ cache = EmptyDict
    /\ locked = FALSE
    /\ waiters = <<>>
    /\ task = [t \in Tasks |-> IdleTask]
    /\ last = NoCall
    /\ nextInst = 1
    /\ nextGen = 1
    /\ builtFor = <<>>
    /\ shadow = EmptyDict
    /\ created = EmptyDict
    /\ kept = EmptyDict

\* the parts of the system a specification leaves out stay as they are here
RouterIdle == req = [t \in Tasks |-> NoReq] /\ http = NoHttp
KeyIdle == probe = NoProbe
FactoryIdle == fac = NoFactory
StoreIdle == db = NoDb /\ resp = NoResp
SummIdle == summ = NoSumm
ChatIdle == chat = NoChat

Init ==
    /\ ManagerInit
    /\ RouterIdle
    /\ KeyIdle
    /\ FactoryIdle
    /\ StoreIdle
    /\ SummIdle
    /\ ChatIdle

\* ---- the coroutines ----------------------------------------------------
\* A call finds the lock taken or queued for: the coroutine suspends in
\* asyncio.Lock.acquire.
Enqueue(t, rec) ==
    /\ task' = [task EXCEPT ![t] = rec]
    /\ waiters' = Append(waiters, t)
    /\ last' = NoCall
    /\ UNCHANGED <<cache, shadow, created, kept>>

\* The critical sections, each executed without suspension once the lock is
\* taken.  t is the task, r its call (op, aid, tid, inst, new).
GetSection(t, r) ==
    /\ last' = Ret(t, "get", r.aid, r.tid, 0, None, GetResult(cache, r.aid, r.tid), None, "")
    /\ task' = [task EXCEPT ![t] = IdleTask]
    /\ cache' = GetEffect(cache, r.aid, r.tid)
    /\ shadow' = GetEffect(shadow, r.aid, r.tid)
    /\ UNCHANGED <<created, kept>>

CacheSection(t, r) ==
    /\ cache' = CacheEffect(cache, r.inst, r.aid, r.tid)
    /\ shadow' = CacheEffect(shadow, r.inst, r.aid, r.tid)
    /\ task' = [MarkOver(task, t, {get_cache_key(r.aid, r.tid)}) EXCEPT ![t] = IdleTask]
    /\ last' = Ret(t, "cache", r.aid, r.tid, r.inst, None, None, None, "")
    /\ kept' = Drop(kept, {get_cache_key(r.aid, r.tid)})
    /\ UNCHANGED created

DeleteSection(t, r) ==
    /\ cache' = DeleteEffect(cache, r.aid, r.tid)
    /\ shadow' = DeleteEffect(shadow, r.aid, r.tid)
    /\ task' = [MarkOver(task, t, {get_cache_key(r.aid, r.tid)}) EXCEPT ![t] = IdleTask]
    /\ last' = Ret(t, "delete", r.aid, r.tid, 0, None, None, None, "")
    /\ kept' = Drop(kept, {get_cache_key(r.aid, r.tid)})
    /\ created' = IF ~Truthy(r.tid) THEN Drop(created, {r.aid}) ELSE created

\* refresh_thread_id: cache_agency and delete_agency_from_cache run back to
\* back, the lock being free and nobody queued in between
RefreshBothSections(t, r) ==
    /\ cache' = DeleteEffect(CacheEffect(cache, r.inst, r.aid, r.new), r.aid, r.tid)
    /\ shadow' = DeleteEffect(CacheEffect(shadow, r.inst, r.aid, r.new), r.aid, r.tid)
    /\ task' = [MarkOver(task, t, {get_cache_key(r.aid, r.new), get_cache_key(r.aid, r.tid)})
                  EXCEPT ![t] = IdleTask]
    /\ last' = Ret(t, "refresh", r.aid, r.tid, r.inst, r.new, None, r.new, "")
    /\ kept' = Drop(kept, {get_cache_key(r.aid, r.new), get_cache_key(r.aid, r.tid)})
    /\ created' = Drop(created, {r.aid})

\* refresh_thread_id: cache_agency ran, delete_agency_from_cache has to queue
RefreshInsertSection(t, r) ==
    /\ cache' = CacheEffect(cache, r.inst, r.aid, r.new)
    /\ shadow' = CacheEffect(shadow, r.inst, r.aid, r.new)
    /\ task' = [MarkOver(task, t, {get_cache_key(r.aid, r.new)})
                  EXCEPT ![t] = [r EXCEPT !.stage = "del"]]
    /\ last' = NoCall
    /\ kept' = Drop(kept, {get_cache_key(r.aid, r.new)})
    /\ created' = Drop(created, {r.aid})

RefreshDeleteSection(t, r) ==
    /\ cache' = DeleteEffect(cache, r.aid, r.tid)
    /\ shadow' = DeleteEffect(shadow, r.aid, r.tid)
    /\ task' = [MarkOver(task, t, {get_cache_key(r.aid, r.tid)}) EXCEPT ![t] = IdleTask]
    /\ last' = Ret(t, "refresh", r.aid, r.tid, r.inst, r.new, None, r.new, "")
    /\ kept' = Drop(kept, {get_cache_key(r.aid, r.tid)})
    /\ created' = Drop(created, {r.aid})

\* get_agency(agency_id, thread_id)
get_agency(t, a, th) ==
    /\ task[t].pc = "idle"
    /\ LET r == [IdleTask EXCEPT !.pc = "wait", !.op = "get", !.aid = a, !.tid = th]
       IN IF CanAcquire THEN GetSection(t, r) /\ UNCHANGED waiters ELSE Enqueue(t, r)
    /\ UNCHANGED <<locked, nextInst, nextGen, builtFor>>
    /\ UNCHANGED ext

\* cache_agency(agency, agency_id, thread_id)
cache_agency(t, i, a, th) ==
    /\ task[t].pc = "idle"
    /\ i \in 1..(nextInst - 1)
    /\ LET r == [IdleTask EXCEPT !.pc = "wait", !.op = "cache", !.aid = a, !.tid = th, !.inst = i]
       IN IF CanAcquire THEN CacheSection(t, r) /\ UNCHANGED waiters ELSE Enqueue(t, r)
    /\ UNCHANGED <<locked, nextInst, nextGen, builtFor>>
    /\ UNCHANGED ext

\* delete_agency_from_cache(agency_id, thread_id)
delete_agency_from_cache(t, a, th) ==
    /\ task[t].pc = "idle"
    /\ LET r == [IdleTask EXCEPT !.pc = "wait", !.op = "delete", !.aid = a, !.tid = th]
       IN IF CanAcquire THEN DeleteSection(t, r) /\ UNCHANGED waiters ELSE Enqueue(t, r)
    /\ UNCHANGED <<locked, nextInst, nextGen, builtFor>>
    /\ UNCHANGED ext

\* create_agency(agency_id) up to the await of the build thread
create_agency(t, given) ==
    /\ task[t].pc = "idle"
    /\ nextInst + PendingCreates <= MaxInst
    /\ Truthy(given) \/ nextGen <= MaxGen
    /\ LET a == IF Truthy(given) THEN given[1] ELSE GenId(nextGen)
           r == [IdleTask EXCEPT !.pc = "wait", !.op = "create", !.aid = a]
       IN /\ nextGen' = IF Truthy(given) THEN nextGen ELSE nextGen + 1
          /\ IF CanAcquire
                THEN /\ locked' = TRUE
                     /\ task' = [task EXCEPT ![t] = [r EXCEPT !.pc = "build"]]
                     /\ last' = NoCall
                     /\ UNCHANGED <<waiters, cache, shadow, created, kept>>
                ELSE /\ Enqueue(t, r)
                     /\ UNCHANGED locked
    /\ UNCHANGED <<nextInst, builtFor>>
    /\ UNCHANGED ext

\* load_agency_from_config(agency_id), run by asyncio.to_thread: the thread
\* ends by returning a new Agency object (outcome "") or by raising.
load_agency_from_config(t, outcome) ==
    /\ task[t].pc = "build"
    /\ IF outcome = ""
          THEN /\ task' = [task EXCEPT ![t].pc = "built", ![t].inst = nextInst]
               /\ nextInst' = nextInst + 1
               /\ builtFor' = Append(builtFor, task[t].aid)
          ELSE /\ task' = [task EXCEPT ![t].pc = "built", ![t].err = outcome]
               /\ UNCHANGED <<nextInst, builtFor>>
    /\ last' = NoCall
    /\ UNCHANGED <<cache, shadow, locked, waiters, nextGen, created, kept>>
    /\ UNCHANGED ext

\* create_agency resumed after the build: store, release, return; or release
\* and let the exception through
create_agency_resume(t) ==
    /\ task[t].pc = "built"
    /\ LET r == task[t]
           ok == r.err = ""
       IN /\ cache' = CreateStore(cache, r.aid, r.inst, r.err)
          /\ shadow' = IF ok /\ r.aid \notin r.over THEN Put(shadow, r.aid, r.inst) ELSE shadow
          /\ locked' = LockedAfterExit(~ok)
          /\ task' = [MarkOver(task, t, IF ok THEN {r.aid} ELSE {}) EXCEPT ![t] = IdleTask]
          /\ last' = Ret(t, "create", r.aid, None, 0, None,
                         IF ok THEN Some(r.inst) ELSE None, None, r.err)
          /\ kept' = IF ok THEN Put(kept, r.aid, r.inst) ELSE kept
          /\ created' = IF ok THEN Returned(created, r.aid, r.inst) ELSE created
    /\ UNCHANGED <<waiters, nextInst, nextGen, builtFor>>
    /\ UNCHANGED ext

\* refresh_thread_id(agency, agency_id, thread_id); new is the value read
\* from agency.main_thread.id, which the external runtime sets
refresh_thread_id(t, i, a, th, new) ==
    /\ task[t].pc = "idle"
    /\ i \in 1..(nextInst - 1)
    /\ LET r == [IdleTask EXCEPT !.pc = "wait", !.op = "refresh", !.aid = a, !.tid = th,
                                 !.inst = i, !.new = new, !.stage = "ins"]
       IN IF ~ThreadChanged(th, new)
             THEN /\ last' = Ret(t, "refresh", a, th, i, new, None, None, "")
                  /\ created' = Drop(created, {a})
                  /\ UNCHANGED <<cache, shadow, task, waiters, kept>>
             ELSE IF CanAcquire
                     THEN RefreshBothSections(t, r) /\ UNCHANGED waiters
                     ELSE Enqueue(t, r)
    /\ UNCHANGED <<locked, nextInst, nextGen, builtFor>>
    /\ UNCHANGED ext

\* asyncio.Lock: release() wakes the first waiter, which then takes the lock
WakeCond(t) ==
    /\ task[t].pc = "wait"
    /\ waiters # <<>>
    /\ Head(waiters) = t
    /\ ~locked

wake_get_agency(t) ==
    /\ WakeCond(t) /\ task[t].op = "get"
    /\ GetSection(t, task[t])
    /\ waiters' = Tail(waiters)
    /\ UNCHANGED <<locked, nextInst, nextGen, builtFor>>
    /\ UNCHANGED ext

wake_cache_agency(t) ==
    /\ WakeCond(t) /\ task[t].op = "cache"
    /\ CacheSection(t, task[t])
    /\ waiters' = Tail(waiters)
    /\ UNCHANGED <<locked, nextInst, nextGen, builtFor>>
    /\ UNCHANGED ext

wake_delete_agency_from_cache(t) ==
    /\ WakeCond(t) /\ task[t].op = "delete"
    /\ DeleteSection(t, task[t])
    /\ waiters' = Tail(waiters)
    /\ UNCHANGED <<locked, nextInst, nextGen, builtFor>>
    /\ UNCHANGED ext

wake_create_agency(t) ==
    /\ WakeCond(t) /\ task[t].op = "create"
    /\ locked' = TRUE
    /\ waiters' = Tail(waiters)
    /\ task' = [task EXCEPT ![t].pc = "build"]
    /\ last' = NoCall
    /\ UNCHANGED <<cache, shadow, nextInst, nextGen, builtFor, created, kept>>
    /\ UNCHANGED ext

\* refresh_thread_id resumed in cache_agency: after the insertion the lock is
\* released; delete_agency_from_cache takes it at once if nobody is queued,
\* and queues behind the waiters otherwise.
wake_refresh_insert(t) ==
    /\ WakeCond(t) /\ task[t].op = "refresh" /\ task[t].stage = "ins"
    /\ IF Tail(waiters) = <<>>
          THEN RefreshBothSections(t, task[t]) /\ waiters' = Tail(waiters)
          ELSE RefreshInsertSection(t, task[t]) /\ waiters' = Append(Tail(waiters), t)
    /\ UNCHANGED <<locked, nextInst, nextGen, builtFor>>
    /\ UNCHANGED ext

\* refresh_thread_id resumed in delete_agency_from_cache
wake_refresh_delete(t) ==
    /\ WakeCond(t) /\ task[t].op = "refresh" /\ task[t].stage = "del"
    /\ RefreshDeleteSection(t, task[t])
    /\ waiters' = Tail(waiters)
    /\ UNCHANGED <<locked, nextInst, nextGen, builtFor>>
    /\ UNCHANGED ext

\* The agency ids the callers of the other operations name
KnownIds == AgencyIds

Next ==
    \E t \in Tasks :
        \/ \E a \in KnownIds, th \in ThreadOpts : get_agency(t, a, th)
        \/ \E i \in 1..MaxInst, a \in KnownIds, th \in ThreadOpts : cache_agency(t, i, a, th)
        \/ \E a \in KnownIds, th \in ThreadOpts : delete_agency_from_cache(t, a, th)
        \/ \E given \in Opt(AgencyIds \cup {""}) :
               (Truthy(given) \/ nextGen <= MaxGenMixed) /\ create_agency(t, given)
        \/ \E o \in BuildErrors \cup {""} : load_agency_from_config(t, o)
        \/ create_agency_resume(t)
        \/ \E i \in 1..MaxInst, a \in KnownIds, th \in ThreadOpts, new \in ThreadOpts :
               refresh_thread_id(t, i, a, th, new)
        \/ wake_get_agency(t)
        \/ wake_cache_agency(t)
        \/ wake_delete_agency_from_cache(t)
        \/ wake_create_agency(t)
        \/ wake_refresh_insert(t)
        \/ wake_refresh_delete(t)

Spec == Init /\ [][Next]_vars


\* asyncio runs every task that is ready, wakes the lock's waiters in FIFO
\* order, and every build thread ends (by returning or by raising).
Wake(t) ==
    \/ wake_get_agency(t)
    \/ wake_cache_agency(t)
    \/ wake_delete_agency_from_cache(t)
    \/ wake_create_agency(t)
    \/ wake_refresh_insert(t)
    \/ wake_refresh_delete(t)

Fairness ==
    \A t \in Tasks :
        /\ WF_vars(Wake(t))
        /\ WF_vars(\E o \in BuildErrors \cup {""} : load_agency_from_config(t, o))
        /\ WF_vars(create_agency_resume(t))

FairSpec == Init /\ [][Next]_vars /\ Fairness

\* ---- the session router (nalgonda/routers/v1/api/session.py) -------------
\* Route handlers run as tasks of the same event loop.  A request is
\* received with the authenticated user and with what
\* AgencyConfigFirestoreStorage.load_by_agency_id returns for its agency id
\* (cfg: None, or the owner_id of the stored configuration); the handler
\* then runs up to its first suspension.
Users == {"u1", "u2"}
SessionThreadIds == {"t1", "t2"}

\* `if agency_config.owner_id != current_user.id` with the test left out
OwnerMismatch_Never(cfg, user) == FALSE

\* `if agency_config.owner_id != current_user.id`
OwnerMismatch(cfg, user) == cfg[1] # user

\* a handler that falls back to the agency-level instance when the session
\* is not cached
FoundAgency_FallsBack(c, a, th) ==
    IF GetResult(c, a, th) # None THEN GetResult(c, a, th) ELSE GetResult(c, a, None)

\* the agency a handler goes on with: what get_agency returned
FoundAgency(c, a, th) == GetResult(c, a, th)

Request(h, u, a, th, cfg) == [handler |-> h, user |-> u, aid |-> a, tid |-> th, cfg |-> cfg]

\* the handler of task t returns or raises HTTPException: the response
Respond(t, status, i, th, m) ==
    /\ http' = [task |-> t, handler |-> req[t].handler, user |-> req[t].user,
                aid |-> req[t].aid, tid |-> req[t].tid, cfg |-> req[t].cfg,
                status |-> status, inst |-> i, thread_id |-> th, main |-> m]
    /\ req' = [req EXCEPT ![t] = NoReq]

\* POST /session and POST /session/message arrive
receive_request(t, h, u, a, th, cfg) ==
    /\ task[t].pc = "idle"
    /\ h = "session" => th = None
    /\ req' = [req EXCEPT ![t] = Request(h, u, a, th, cfg)]
    /\ task' = [task EXCEPT ![t] = [IdleTask EXCEPT !.pc = "recv", !.op = h, !.aid = a, !.tid = th]]
    /\ http' = NoHttp
    /\ last' = NoCall
    /\ UNCHANGED <<cache, locked, waiters, nextInst, nextGen, builtFor, shadow, created, kept, probe, aux>>

\* The permission check both handlers start with: 404 without a stored
\* configuration, 403 when it is owned by somebody else.
Denied(t) == req[t].cfg = None \/ OwnerMismatch(req[t].cfg, req[t].user)

Deny(t) ==
    /\ Respond(t, IF req[t].cfg = None THEN 404 ELSE 403, 0, None, None)
    /\ task' = [task EXCEPT ![t] = IdleTask]
    /\ UNCHANGED <<cache, shadow, kept, waiters>>

\* the handler suspends in the acquire of get_agency or of cache_agency
Suspend(t, rec, q) ==
    /\ task' = [task EXCEPT ![t] = rec]
    /\ waiters' = Append(q, t)
    /\ http' = NoHttp
    /\ UNCHANGED req

\* create_session after its get_agency got the lock; q is the lock's queue
\* without this task, th the id thread_manager.create_threads returns
SessionLookup(t, th, q) ==
    LET ag == FoundAgency(cache, req[t].aid, None)
        c1 == GetEffect(cache, req[t].aid, None)
        s1 == GetEffect(shadow, req[t].aid, None)
    IN IF ag = None
          THEN /\ Respond(t, 404, 0, None, None)
               /\ task' = [task EXCEPT ![t] = IdleTask]
               /\ cache' = c1 /\ shadow' = s1
               /\ waiters' = q
               /\ UNCHANGED kept
          ELSE IF q = <<>>
                  THEN /\ cache' = CacheEffect(c1, ag[1], req[t].aid, Some(th))
                       /\ shadow' = CacheEffect(s1, ag[1], req[t].aid, Some(th))
                       /\ kept' = Drop(kept, {get_cache_key(req[t].aid, Some(th))})
                       /\ Respond(t, 200, ag[1], Some(th), None)
                       /\ task' = [task EXCEPT ![t] = IdleTask]
                       /\ waiters' = q
                  ELSE /\ Suspend(t, [task[t] EXCEPT !.pc = "wait", !.stage = "cache",
                                                     !.inst = ag[1], !.new = Some(th)], q)
                       /\ cache' = c1 /\ shadow' = s1
                       /\ UNCHANGED kept

\* POST /session: create_session
create_session(t, th) ==
    /\ task[t].pc = "recv" /\ task[t].op = "session"
    /\ IF Denied(t) THEN Deny(t)
       ELSE IF CanAcquire THEN SessionLookup(t, th, waiters)
       ELSE /\ Suspend(t, [task[t] EXCEPT !.pc = "wait", !.stage = "get"], waiters)
            /\ UNCHANGED <<cache, shadow, kept>>
    /\ last' = NoCall
    /\ UNCHANGED <<locked, nextInst, nextGen, builtFor, created, probe, aux>>

\* create_session resumed in get_agency
wake_session_get(t, th) ==
    /\ WakeCond(t) /\ task[t].op = "session" /\ task[t].stage = "get"
    /\ SessionLookup(t, th, Tail(waiters))
    /\ last' = NoCall
    /\ UNCHANGED <<locked, nextInst, nextGen, builtFor, created, probe, aux>>

\* create_session resumed in cache_agency
wake_session_cache(t) ==
    /\ WakeCond(t) /\ task[t].op = "session" /\ task[t].stage = "cache"
    /\ cache' = CacheEffect(cache, task[t].inst, req[t].aid, task[t].new)
    /\ shadow' = CacheEffect(shadow, task[t].inst, req[t].aid, task[t].new)
    /\ kept' = Drop(kept, {get_cache_key(req[t].aid, task[t].new)})
    /\ Respond(t, 200, task[t].inst, task[t].new, None)
    /\ task' = [task EXCEPT ![t] = IdleTask]
    /\ waiters' = Tail(waiters)
    /\ last' = NoCall
    /\ UNCHANGED <<locked, nextInst, nextGen, builtFor, created, probe, aux>>

\* post_agency_message after its get_agency got the lock: 404 on a miss,
\* else the turn is started on a worker thread
MessageLookup(t, q) ==
    LET ag == FoundAgency(cache, req[t].aid, req[t].tid)
    IN /\ cache' = GetEffect(cache, req[t].aid, req[t].tid)
       /\ shadow' = GetEffect(shadow, req[t].aid, req[t].tid)
       /\ waiters' = q
       /\ IF ag = None
             THEN /\ Respond(t, 404, 0, None, None)
                  /\ task' = [task EXCEPT ![t] = IdleTask]
             ELSE /\ task' = [task EXCEPT ![t] = [task[t] EXCEPT !.pc = "turn", !.stage = "",
                                                                  !.inst = ag[1]]]
                  /\ http' = NoHttp
                  /\ UNCHANGED req
       /\ UNCHANGED kept

\* POST /session/message: post_agency_message
post_agency_message(t) ==
    /\ task[t].pc = "recv" /\ task[t].op = "message"
    /\ IF Denied(t) THEN Deny(t)
       ELSE IF CanAcquire THEN MessageLookup(t, waiters)
       ELSE /\ Suspend(t, [task[t] EXCEPT !.pc = "wait", !.stage = "get"], waiters)
            /\ UNCHANGED <<cache, shadow, kept>>
    /\ last' = NoCall
    /\ UNCHANGED <<locked, nextInst, nextGen, builtFor, created, probe, aux>>

\* post_agency_message resumed in get_agency
wake_message_get(t) ==
    /\ WakeCond(t) /\ task[t].op = "message" /\ task[t].stage = "get"
    /\ MessageLookup(t, Tail(waiters))
    /\ last' = NoCall
    /\ UNCHANGED <<locked, nextInst, nextGen, builtFor, created, probe, aux>>

\* agency.get_completion ends on its thread and post_agency_message resumes:
\* {"response": response}, or 500 when the turn raised.  m is the id
\* agency.main_thread has by then, which the handler does not read.
get_completion(t, raised, m) ==
    /\ task[t].pc = "turn"
    /\ Respond(t, IF raised THEN 500 ELSE 200, task[t].inst, None, m)
    /\ task' = [task EXCEPT ![t] = IdleTask]
    /\ last' = NoCall
    /\ UNCHANGED <<cache, locked, waiters, nextInst, nextGen, builtFor, shadow, created, kept, probe, aux>>

\* The session router in use, the agencies being created by create_agency
SessionNext ==
    \E t \in Tasks :
        \/ \E h \in {"session", "message"}, u \in Users, a \in AgencyIds,
              th \in Opt(SessionThreadIds), cfg \in Opt(Users) :
               receive_request(t, h, u, a, th, cfg)
        \/ \E th \in SessionThreadIds : create_session(t, th)
        \/ \E th \in SessionThreadIds : wake_session_get(t, th)
        \/ wake_session_cache(t)
        \/ post_agency_message(t)
        \/ wake_message_get(t)
        \/ \E raised \in BOOLEAN, m \in Opt(SessionThreadIds) : get_completion(t, raised, m)
        \/ \E a \in AgencyIds : create_agency(t, Some(a))
        \/ \E o \in BuildErrors \cup {""} : load_agency_from_config(t, o)
        \/ create_agency_resume(t)
        \/ wake_create_agency(t)

SessionSpec == Init /\ [][SessionNext]_vars

\* ---- what a step did ----------------------------------------------------
\* Task u executed a critical section of the cache in this step (it held
\* the lock at some point of the step).
CritBy(u) ==
    \/ task[u].pc = "wait" /\ task'[u] # task[u]
    \/ task[u].pc = "idle" /\ task'[u].pc = "build"
    \/ task[u].pc = "built" /\ task'[u].pc = "idle"
    \/ /\ task[u].pc = "idle" /\ task'[u].pc = "idle"
       /\ last'.task = u
       /\ ~(last'.op = "refresh" /\ last'.tid = last'.new)

\* Task t is inside refresh_thread_id, after its cache_agency and before its
\* delete_agency_from_cache, and its instance is registered under both the
\* old and the new key.
RefreshMid(t) ==
    /\ task[t].op = "refresh" /\ task[t].stage = "del"
    /\ get_cache_key(task[t].aid, task[t].tid) # get_cache_key(task[t].aid, task[t].new)
    /\ GetResult(cache, task[t].aid, task[t].tid) = Some(task[t].inst)
    /\ GetResult(cache, task[t].aid, task[t].new) = Some(task[t].inst)

\* A refresh_thread_id that found a changed thread id returns in this step
\* and ran its two critical sections in this very step, so that no other
\* operation came in between.
RefreshUninterleaved ==
    /\ last'.op = "refresh"
    /\ last'.tid # last'.new
    /\ task[last'.task].stage # "del"

\* The step removed the entry at cache key k by a delete_agency_from_cache,
\* called directly or as the second half of a refresh_thread_id that found a
\* changed thread id.
RemovalAt(k) ==
    \/ last'.op = "delete" /\ get_cache_key(last'.aid, last'.tid) = k
    \/ /\ last'.op = "refresh" /\ ThreadChanged(last'.tid, last'.new)
       /\ get_cache_key(last'.aid, last'.tid) = k

\* The step wrote at cache key k: a cache_agency, the store of a
\* create_agency, or the first half of a refresh_thread_id.
WriteAt(k) ==
    \/ last'.op = "cache" /\ get_cache_key(last'.aid, last'.tid) = k
    \/ last'.op = "create" /\ last'.err = "" /\ last'.aid = k
    \/ /\ RefreshUninterleaved
       /\ get_cache_key(last'.aid, last'.new) = k
    \/ \E t \in Tasks :
          /\ task[t].op = "refresh" /\ task[t].stage = "ins" /\ task'[t].stage = "del"
          /\ get_cache_key(task[t].aid, task[t].new) = k

\* ---- claims -------------------------------------------------------------

\* C1: while a refresh_thread_id is between its insertion under the new key
\* and its eviction of the old key, no other task executes a critical
\* section of the cache (so none can observe the double registration).
C1_RefreshIsAtomic ==
    [][\A t \in Tasks : RefreshMid(t) => \A u \in Tasks \ {t} : ~CritBy(u)]_vars

\* C2: whenever refresh_thread_id returns, having found a differing thread
\* id and with no other operation interleaved, the instance is reachable
\* under the key derived from the reported thread id.
C2_ReachableAfterRefresh ==
    [][RefreshUninterleaved =>
         GetResult(cache', last'.aid, last'.new) = Some(last'.inst)]_vars

\* C3: an instance cached under key a, for which the runtime reports the
\* thread id t2: refresh_thread_id(instance, a, None) returns t2, and right
\* afterwards get_agency(a, None) is absent and get_agency(a, t2) is the
\* instance.
C3_MovesToThreadKey ==
    [][(/\ RefreshUninterleaved
        /\ last'.tid = None
        /\ Truthy(last'.new)
        /\ GetResult(cache, last'.aid, None) = Some(last'.inst))
       => (/\ last'.rtid = last'.new
           /\ GetResult(cache', last'.aid, None) = None
           /\ GetResult(cache', last'.aid, last'.new) = Some(last'.inst))]_vars

C3_Witness ==
    /\ last.op = "refresh" /\ last.tid = None /\ Truthy(last.new)
    /\ last.rtid = last.new
    /\ builtFor[last.inst] = last.aid
    /\ GetResult(cache, last.aid, None) = None
    /\ GetResult(cache, last.aid, last.new) = Some(last.inst)

\* C4: when the reported thread id equals the observed one, refresh_thread_id
\* returns None and leaves the whole cache unchanged.
C4_UnchangedIsNoOp ==
    [][(last'.op = "refresh" /\ last'.tid = last'.new)
       => (last'.rtid = None /\ cache' = cache)]_vars

C4_Witness ==
    /\ last.op = "refresh" /\ last.tid = last.new /\ last.rtid = None
    /\ GetResult(cache, last.aid, last.tid) = Some(last.inst)

\* C5 (as claimed): after create_agency(a) returned i, get_agency(a, None)
\* returns i as long as no delete_agency_from_cache(a, None) and no
\* refresh_thread_id for a has executed.
C5_SameUntilEvictedOrReconciled ==
    \A a \in DOMAIN created : \A i \in created[a] : GetResult(cache, a, None) = Some(i)

\* C5 (amended): after create_agency(a) returned i, get_agency(a, None)
\* returns i as long as no create_agency, cache_agency or
\* delete_agency_from_cache (called directly or by refresh_thread_id) has
\* written or removed the entry at the cache key a.
C5_SameUntilKeyWritten ==
    \A a \in DOMAIN kept : GetResult(cache, a, None) = Some(kept[a])

C5_Witness ==
    /\ last.op = "get" /\ last.tid = None
    /\ last.aid \in DOMAIN kept
    /\ last.agency = Some(kept[last.aid])
    /\ DOMAIN cache # {last.aid}

\* C6: when the build of create_agency fails, the error reaches the caller as
\* raised, the cache is what it was when the call took the lock, and the
\* lock is released.
C6_FailedBuildLeavesCache ==
    [][\A t \in Tasks : InProgress(t) =>
         IF task[t].err # "" /\ task'[t].pc = "idle"
            THEN /\ cache' = cache
                 /\ last'.op = "create" /\ last'.task = t
                 /\ last'.err = task[t].err /\ last'.agency = None
                 /\ ~locked'
            ELSE cache' # cache => (task'[t].pc = "idle" /\ task[t].err = "")]_vars

C6_Witness ==
    /\ last.op = "create" /\ last.err \in BuildErrors
    /\ ~locked
    /\ GetResult(cache, last.aid, None) # None

\* C7: at most one task executes load_agency_from_config at any moment.
C7_OneBuildAtATime ==
    Cardinality({t \in Tasks : task[t].pc = "build"}) <= 1

C7_Witness ==
    \E t, u \in Tasks :
        /\ task[t].pc = "build"
        /\ task[u].pc = "wait" /\ task[u].op = "create"

\* C8: from the moment create_agency takes the lock until it has stored the
\* new instance, no other task executes a critical section, and the cache
\* mapping changes only by that store.
C8_BuildSerialized ==
    [][\A t \in Tasks : InProgress(t) =>
         /\ \A u \in Tasks \ {t} : ~CritBy(u)
         /\ cache' # cache => (task[t].pc = "built" /\ task'[t].pc = "idle")]_vars

C8_Witness ==
    \E t, u \in Tasks :
        /\ task[t].pc = "built" /\ task[t].err = ""
        /\ task[u].pc = "wait" /\ task[u].op \in {"get", "cache", "delete"}

\* C9: under a fair lock and terminating builds, every call that was invoked
\* and had to suspend eventually returns.
C9_EveryCallReturns ==
    \A t \in Tasks : (task[t].pc # "idle") ~> (task[t].pc = "idle")

C9_Witness ==
    \E t, u \in Tasks :
        /\ task[t].pc = "build"
        /\ task[u].pc = "wait"
        /\ locked

\* C10: the cache is at every moment what the writes and removals produce
\* when applied in lock-acquisition order, and every get_agency returns the
\* entry of that mapping at its key.
C10_Linearizable ==
    /\ cache = shadow
    /\ last.op = "get" => last.agency = GetResult(shadow, last.aid, last.tid)

C10_Witness ==
    /\ last.op = "get" /\ last.agency # None
    /\ \E u \in Tasks : task[u].pc = "wait"

\* C11: a get_agency that returns has left the cache mapping exactly as it
\* was, has constructed nothing (no Agency object built, no task put into a
\* build), has raised nothing, and on a key that is not in the cache has
\* returned None.
C11_GetIsPure ==
    [][last'.op = "get" =>
         /\ cache' = cache
         /\ nextInst' = nextInst /\ builtFor' = builtFor
         /\ \A u \in Tasks : InProgress(u)' => InProgress(u)
         /\ last'.err = ""
         /\ get_cache_key(last'.aid, last'.tid) \notin DOMAIN cache => last'.agency = None]_vars

C11_Witness ==
    /\ last.op = "get" /\ last.agency = None /\ last.err = ""
    /\ cache # EmptyDict
    /\ get_cache_key(last.aid, last.tid) \notin DOMAIN cache

\* C12: a delete_agency_from_cache that returns has raised nothing; when its
\* key was not in the cache the mapping is unchanged; otherwise exactly the
\* entry at its key is gone, and the entry of every other key is what it was.
C12_DeleteOnlyItsKey ==
    [][last'.op = "delete" =>
         LET k == get_cache_key(last'.aid, last'.tid)
         IN /\ last'.err = ""
            /\ k \notin DOMAIN cache => cache' = cache
            /\ DOMAIN cache' = (DOMAIN cache) \ {k}
            /\ \A x \in DOMAIN cache' : cache'[x] = cache[x]]_vars

C12_Witness ==
    /\ last.op = "delete" /\ Truthy(last.tid) /\ last.err = ""
    /\ get_cache_key(last.aid, last.tid) \notin DOMAIN cache
    /\ last.aid \in DOMAIN cache

\* C13: a cache_agency(i, a, t) that returns has written i at the key derived
\* from (a, t), whatever was there before; get_agency(a, t) on the resulting
\* cache gives i; no other key was added or removed and every other entry
\* holds the instance it held.
C13_CacheWritesItsKey ==
    [][last'.op = "cache" =>
         LET k == get_cache_key(last'.aid, last'.tid)
         IN /\ DOMAIN cache' = (DOMAIN cache) \cup {k}
            /\ cache'[k] = last'.inst
            /\ GetResult(cache', last'.aid, last'.tid) = Some(last'.inst)
            /\ \A x \in (DOMAIN cache) \ {k} : cache'[x] = cache[x]]_vars

C13_Witness ==
    /\ last.op = "cache" /\ Truthy(last.tid)
    /\ GetResult(cache, last.aid, last.tid) = Some(last.inst)
    /\ last.aid \in DOMAIN cache
    /\ cache[last.aid] # last.inst

\* ---- get_cache_key on its own --------------------------------------------
\* The arguments get_cache_key is called with: agency ids as callers supply
\* them, and thread ids present (the empty string included) or None.
KeyAgencyIds == {"a", "a/t1"}
KeyThreadOpts == Opt({"", "t1", "t2"})

KeyInit ==
    /\ ManagerInit
    /\ RouterIdle
    /\ FactoryIdle
    /\ StoreIdle
    /\ SummIdle
    /\ ChatIdle
    /\ probe \in {[aid1 |-> a1, t1 |-> t1, aid2 |-> a2, t2 |-> t2, k1 |-> None, k2 |-> None] :
                    a1 \in KeyAgencyIds, a2 \in KeyAgencyIds,
                    t1 \in KeyThreadOpts, t2 \in KeyThreadOpts}

\* one of the two calls get_cache_key(agency_id, thread_id) is made and
\* returns its key
call_get_cache_key(n) ==
    /\ \/ /\ n = 1 /\ probe.k1 = None
          /\ probe' = [probe EXCEPT !.k1 = Some(get_cache_key(probe.aid1, probe.t1))]
       \/ /\ n = 2 /\ probe.k2 = None
          /\ probe' = [probe EXCEPT !.k2 = Some(get_cache_key(probe.aid2, probe.t2))]
    /\ UNCHANGED <<cache, locked, waiters, task, last, nextInst, nextGen, builtFor,
                   shadow, created, kept, req, http, aux>>

KeyNext == \E n \in 1..2 : call_get_cache_key(n)

KeySpec == KeyInit /\ [][KeyNext]_vars

\* C14: get_cache_key returns the agency id, "/" and the thread id whenever
\* a thread id is given (is not None), and the bare agency id when none is
\* given; and for one agency id, two different given thread ids yield two
\* different keys.
C14_KeyJoinsPresentThread ==
    /\ probe.k1 # None =>
         probe.k1 = Some(IF probe.t1 # None THEN probe.aid1 \o "/" \o probe.t1[1] ELSE probe.aid1)
    /\ (/\ probe.k1 # None /\ probe.k2 # None
        /\ probe.aid1 = probe.aid2
        /\ probe.t1 # None /\ probe.t2 # None /\ probe.t1 # probe.t2)
       => probe.k1 # probe.k2

\* ---- create_agency without an agency id, alone ---------------------------
\* Callers that only create agencies without naming an id, concurrently, and
\* look the generated ids up.
GenNext ==
    \E t \in Tasks :
        \/ \E given \in {None, Some("")} : create_agency(t, given)
        \/ \E o \in BuildErrors \cup {""} : load_agency_from_config(t, o)
        \/ create_agency_resume(t)
        \/ wake_create_agency(t)
        \/ \E n \in 1..MaxGen : get_agency(t, GenId(n), None)
        \/ wake_get_agency(t)

GenSpec == Init /\ [][GenNext]_vars

\* C15: the create_agency calls made without an agency id work on pairwise
\* distinct generated ids, whether they run one after the other or queue for
\* the lock together; every one that has returned an instance has its entry
\* in the cache under its own id, holding its own instance.
C15_GeneratedIdsDistinct ==
    /\ \A t, u \in Tasks :
         (t # u /\ task[t].op = "create" /\ task[u].op = "create") => task[t].aid # task[u].aid
    /\ \A i, j \in 1..Len(builtFor) : i # j => builtFor[i] # builtFor[j]
    /\ \A i \in 1..Len(builtFor) :
         \/ \E t \in Tasks : task[t].pc = "built" /\ task[t].inst = i
         \/ Lookup(cache, builtFor[i]) = Some(i)
    /\ (last.op = "create" /\ last.agency # None) => builtFor[last.agency[1]] = last.aid

C15_Witness ==
    /\ Len(builtFor) = 2
    /\ \A t \in Tasks : task[t].pc = "idle"
    /\ Cardinality(DOMAIN cache) = 2
    /\ cache[GenId(1)] # cache[GenId(2)]

\* C16: a key that is in the cache stays in it through every step that is
\* not a delete_agency_from_cache on that very key (called directly or by a
\* refresh_thread_id that moves the instance away from it), and the instance
\* under it changes only when a create_agency, cache_agency or refresh
\* writes that very key: get_agency, and writes and removals at other keys,
\* never remove or replace it.  Nothing expires and nothing is evicted for
\* room.
C16_RetainedUntilDeleted ==
    [][\A k \in DOMAIN cache :
         /\ k \notin DOMAIN cache' => RemovalAt(k)
         /\ (k \in DOMAIN cache' /\ cache'[k] # cache[k]) => WriteAt(k)]_vars

C16_Witness ==
    /\ last.op = "create" /\ last.err = "" /\ last.aid \in DOMAIN cache
    /\ \E k \in DOMAIN cache : k # last.aid /\ cache[k] # cache[last.aid]

\* The handler of task t executes its get_agency in this step.
LookupBy(t) ==
    /\ task[t].op \in {"session", "message"}
    /\ task'[t] # task[t]
    /\ \/ task[t].pc = "recv" /\ ~Denied(t) /\ CanAcquire
       \/ task[t].pc = "wait" /\ task[t].stage = "get"

\* C17: when post_agency_message answers a turn that succeeded, and the
\* instance then reports a thread id other than the one of the request, the
\* handler has reconciled it: the response carries the new thread id and the
\* instance is cached under the key of that thread id.
C17_ReconciledBeforeResponse ==
    [][(/\ http'.handler = "message" /\ http'.status = 200
        /\ ThreadChanged(http'.tid, http'.main))
       => (/\ http'.thread_id = http'.main
           /\ GetResult(cache', http'.aid, http'.main) = Some(http'.inst))]_vars

\* C18: when the get_agency of create_session or of post_agency_message
\* misses, the handler answers 404 in that very step, the cache is left as
\* it was, no turn is started, and nothing is constructed (no Agency object
\* built, no task put into a build).
C18_MissIs404 ==
    [][\A t \in Tasks :
         (LookupBy(t) /\ GetResult(cache, req[t].aid, req[t].tid) = None) =>
            /\ http'.task = t /\ http'.status = 404
            /\ cache' = cache
            /\ task'[t].pc = "idle"
            /\ nextInst' = nextInst /\ builtFor' = builtFor
            /\ \A u \in Tasks : InProgress(u)' => InProgress(u)]_vars

C18_Witness ==
    /\ http.handler = "message" /\ http.status = 404
    /\ http.cfg = Some(http.user)
    /\ Truthy(http.tid)
    /\ GetResult(cache, http.aid, http.tid) = None
    /\ GetResult(cache, http.aid, None) # None

\* C19: no two turns (get_completion) are in flight on the same Agency
\* object at any moment.
C19_OneTurnPerInstance ==
    \A t, u \in Tasks :
        (t # u /\ task[t].pc = "turn" /\ task[u].pc = "turn") => task[t].inst # task[u].inst

\* C20: a handler whose request names an agency without stored configuration
\* answers 404, and one whose configuration is owned by another user answers
\* 403, in the step that starts it and with the cache untouched; a handler
\* is suspended in get_agency or cache_agency, or runs a turn, only for a
\* request whose configuration is owned by its user, and only such requests
\* are answered otherwise than by 403 or 404.
C20_OwnerOnly ==
    [][\A t \in Tasks :
         /\ (/\ task[t].pc = "recv" /\ task'[t] # task[t]
             /\ req[t].cfg # Some(req[t].user)) =>
                /\ http'.task = t
                /\ http'.status = (IF req[t].cfg = None THEN 404 ELSE 403)
                /\ cache' = cache
                /\ task'[t].pc = "idle"
         /\ (task'[t].op \in {"session", "message"} /\ task'[t].pc \in {"wait", "turn"}) =>
                req'[t].cfg = Some(req'[t].user)
         /\ (http'.task = t /\ http'.status \notin {403, 404}) => http'.cfg = Some(http'.user)]_vars

C20_Witness ==
    /\ http.handler \in {"session", "message"} /\ http.status = 403
    /\ http.cfg # None /\ http.cfg # Some(http.user)
    /\ GetResult(cache, http.aid, http.tid) # None

\* ---- the agent factory: load_agency_from_config in detail -----------------
\* The configuration under study is the one stored for agency "a".  An
\* AgencyConfig holds the agents (role, runtime id, tool names) and the
\* agency chart, whose entries are a role or a list of roles.
MaxAgents == 2         \* agents of a configuration
MaxTools == 2          \* tool names of an agent
MaxChart == 2          \* entries of an agency chart

\* custom_tools/__init__.py: the names TOOL_MAPPING has a class for
TOOL_MAPPING ==
    {"CodeInterpreter", "Retrieval", "BuildDirectoryTree", "GenerateProposal",
     "PrintFileContents", "SaveLeadToAirtable", "SearchWeb", "SummarizeCode",
     "WriteAndSaveProgram"}

Roles == {"ceo", "dev"}
ToolNames == {"SearchWeb", "Retrieval", "Bogus"}

SeqsUpTo(S, n) == UNION {[1..k -> S] : k \in 0..n}
Range(f) == {f[i] : i \in DOMAIN f}

AgentConfs == [role : Roles, id : {None}, tools : SeqsUpTo(ToolNames, MaxTools)]
ChartEntries ==
    {[list |-> FALSE, roles |-> <<r>>] : r \in Roles}
        \cup {[list |-> TRUE, roles |-> <<p[1], p[2]>>] : p \in {p \in Roles \X Roles : p[1] # p[2]}}

\* the configurations as they are before the first build: no runtime ids,
\* one agent per role
Configs ==
    {c \in [agents : SeqsUpTo(AgentConfs, MaxAgents) \ {<<>>},
            chart : SeqsUpTo(ChartEntries, MaxChart) \ {<<>>}] :
        \A i, j \in DOMAIN c.agents : i # j => c.agents[i].role # c.agents[j].role}

\* the tool list taken as configured, unknown names included
ResolveTools_KeepsAll(tools) == tools

\* [TOOL_MAPPING[tool] for tool in agent_conf.tools if tool in TOOL_MAPPING]
ResolveTools(tools) == SelectSeq(tools, LAMBDA x : x \in TOOL_MAPPING)

\* an Agent built without the id its configuration has
AgentOf_WithoutId(conf, aid) ==
    [id |-> None, name |-> conf.role \o "_" \o aid, tools |-> ResolveTools(conf.tools)]

\* Agent(id=agent_conf.id, name=f"{agent_conf.role}_{agency_id}", ..., tools=[...])
AgentOf(conf, aid) ==
    [id |-> conf.id, name |-> conf.role \o "_" \o aid, tools |-> ResolveTools(conf.tools)]

\* agents = {agent_conf.role: Agent(...) for agent_conf in config.agents}:
\* a later agent of the same role replaces an earlier one
AgentsDict(config, aid) ==
    [r \in {config.agents[i].role : i \in DOMAIN config.agents} |->
        LET i == CHOOSE i \in DOMAIN config.agents :
                    /\ config.agents[i].role = r
                    /\ \A j \in DOMAIN config.agents : j > i => config.agents[j].role # r
        IN AgentOf(config.agents[i], aid)]

\* the roles the agency chart looks up in agents
ChartRoles(chart) == UNION {Range(chart[k].roles) : k \in DOMAIN chart}

\* the runtime's id of the n-th assistant it creates
AssistantId(n) == "asst" \o ToString(n)

\* Agency(agency_chart, ...): the runtime keeps the id an agent of the chart
\* comes with and creates an assistant, with a new id, for one without.
RuntimeIds(config, agents, n) ==
    LET inChart(i) == config.agents[i].role \in ChartRoles(config.chart)
        new(i) == inChart(i) /\ agents[config.agents[i].role].id = None
        rank(i) == Cardinality({j \in DOMAIN config.agents : j < i /\ new(j)})
    IN [i \in {i \in DOMAIN config.agents : inChart(i)} |->
          IF new(i) THEN Some(AssistantId(n + rank(i))) ELSE agents[config.agents[i].role].id]

\* config.update_agent_ids_in_config(agency_id, agents=agency.agents): the
\* ids of the agency's agents are written into their agent configurations
UpdateAgentIds(config, ids) ==
    [config EXCEPT !.agents = [i \in DOMAIN config.agents |->
        IF i \in DOMAIN ids THEN [config.agents[i] EXCEPT !.id = ids[i]] ELSE config.agents[i]]]

\* load_agency_from_config(agency_id) on the stored configuration stored
\* (None if there is none), rt telling whether the runtime accepts the
\* agency, n being the number of the next assistant: the error raised ("" if
\* none), the Agent objects constructed, the runtime ids, and the
\* configuration as stored afterwards.
LoadAgencyFromConfig(stored, aid, rt, n) ==
    IF stored = None
       THEN [err |-> "ConfigurationNotFound", agents |-> EmptyDict, ids |-> EmptyDict,
             rt |-> rt, reached |-> FALSE, stored |-> stored, saved |-> FALSE]
    ELSE LET config == stored[1]
             agents == AgentsDict(config, aid)
             ids == RuntimeIds(config, agents, n)
         IN IF ~(ChartRoles(config.chart) \subseteq DOMAIN agents)
               THEN [err |-> "KeyError", agents |-> agents, ids |-> EmptyDict,
                     rt |-> rt, reached |-> FALSE, stored |-> stored, saved |-> FALSE]
            ELSE IF ~rt
               THEN [err |-> "GraphConstructionError", agents |-> agents, ids |-> EmptyDict,
                     rt |-> rt, reached |-> TRUE, stored |-> stored, saved |-> FALSE]
            ELSE [err |-> "", agents |-> agents, ids |-> ids,
                  rt |-> rt, reached |-> TRUE,
                  stored |-> Some(UpdateAgentIds(config, ids)), saved |-> TRUE]

\* the assistants the runtime created in a build
NewAssistants(stored, res) ==
    IF res.err # "" THEN 0
    ELSE Cardinality({i \in DOMAIN res.ids : stored[1].agents[i].id = None})

\* load_agency_from_config(agency_id) run by asyncio.to_thread for the
\* create_agency of task t
build_agency(t, rt) ==
    /\ task[t].pc = "build"
    /\ LET res == LoadAgencyFromConfig(fac.config, task[t].aid, rt, fac.nextId)
       IN /\ fac' = [config |-> res.stored, result |-> Some(res),
                     nextId |-> fac.nextId + NewAssistants(fac.config, res),
                     saves |-> IF res.saved THEN fac.saves + 1 ELSE fac.saves]
          /\ IF res.err = ""
                THEN /\ task' = [task EXCEPT ![t].pc = "built", ![t].inst = nextInst]
                     /\ nextInst' = nextInst + 1
                     /\ builtFor' = Append(builtFor, task[t].aid)
                ELSE /\ task' = [task EXCEPT ![t].pc = "built", ![t].err = res.err]
                     /\ UNCHANGED <<nextInst, builtFor>>
    /\ last' = NoCall
    /\ UNCHANGED <<cache, shadow, locked, waiters, nextGen, created, kept,
                   req, http, probe, db, resp, summ, chat>>

FactoryInit ==
    /\ ManagerInit
    /\ RouterIdle
    /\ KeyIdle
    /\ StoreIdle
    /\ SummIdle
    /\ ChatIdle
    /\ fac \in {[NoFactory EXCEPT !.config = c] : c \in Opt(Configs)}

FactoryNext ==
    \E t \in Tasks :
        \/ \E a \in AgencyIds : create_agency(t, Some(a))
        \/ \E rt \in BOOLEAN : build_agency(t, rt)
        \/ create_agency_resume(t)
        \/ wake_create_agency(t)

FactorySpec == FactoryInit /\ [][FactoryNext]_vars

\* the tool names of c that are registered, in the order of c, written
\* without the list comprehension: b is c with the unregistered names
\* struck out
IsFiltered(b, c) ==
    LET I == {i \in DOMAIN c : c[i] \in TOOL_MAPPING}
    IN /\ Len(b) = Cardinality(I)
       /\ \A k \in DOMAIN b :
            b[k] = c[CHOOSE i \in I : Cardinality({j \in I : j < i}) = k - 1]

\* C21: every Agent a build constructs has as tools exactly the registered
\* names of its configured tool list, in the configured order; and a build
\* of a stored configuration whose chart names declared roles only, and
\* which the runtime accepts, succeeds whatever the tool names are.
C21_UnknownToolsDropped ==
    (fac.result # None /\ fac.config # None) =>
        LET res == fac.result[1]
        IN /\ \A i \in DOMAIN fac.config[1].agents :
                LET conf == fac.config[1].agents[i]
                IN conf.role \in DOMAIN res.agents =>
                     IsFiltered(res.agents[conf.role].tools, conf.tools)
           /\ (/\ res.rt
               /\ ChartRoles(fac.config[1].chart) \subseteq
                     {fac.config[1].agents[i].role : i \in DOMAIN fac.config[1].agents})
              => res.err = ""

C21_Witness ==
    /\ fac.result # None /\ fac.result[1].err = ""
    /\ GetResult(cache, "a", None) # None
    /\ \E i \in DOMAIN fac.config[1].agents :
         LET conf == fac.config[1].agents[i]
         IN /\ conf.tools = <<"Bogus", "SearchWeb">>
            /\ fac.result[1].agents[conf.role].tools = <<"SearchWeb">>

\* the roles the stored configuration declares as agents
DeclaredRoles(config) == {config.agents[i].role : i \in DOMAIN config.agents}

\* C22: a build of a stored configuration whose chart names a role that is
\* not declared as an agent fails with GraphConstructionError, saves nothing
\* and leaves the cache without an entry.
C22_UndeclaredRoleIsGraphError ==
    (/\ fac.result # None /\ fac.config # None
     /\ ~(ChartRoles(fac.config[1].chart) \subseteq DeclaredRoles(fac.config[1])))
    => /\ fac.result[1].err = "GraphConstructionError"
       /\ ~fac.result[1].saved /\ fac.saves = 0
       /\ DOMAIN cache = {}

\* C23: a successful build saves the stored configuration with the runtime's
\* id written into the configuration of every agent of the agency; it
\* constructs every agent whose configuration has a stored id with that id;
\* and once a build has saved the configuration, a later successful build
\* saves it with the same agent ids.
C23_StoredIdsReused ==
    [][\A t \in Tasks :
         (task[t].pc = "build" /\ task'[t].pc = "built" /\ task'[t].err = "") =>
            LET res == fac'.result[1]
                old == fac.config[1]
                new == fac'.config[1]
            IN /\ fac'.saves = fac.saves + 1
               /\ \A i \in DOMAIN res.ids :
                     res.ids[i] # None /\ new.agents[i].id = res.ids[i]
               /\ \A i \in DOMAIN old.agents :
                     old.agents[i].id # None =>
                        res.agents[old.agents[i].role].id = old.agents[i].id
               /\ fac.saves > 0 =>
                     [i \in DOMAIN new.agents |-> new.agents[i].id]
                        = [i \in DOMAIN old.agents |-> old.agents[i].id]
      ]_vars

C23_Witness ==
    /\ fac.saves = 2
    /\ fac.result # None /\ fac.result[1].err = ""
    /\ \E i \in DOMAIN fac.config[1].agents : fac.config[1].agents[i].id = Some(AssistantId(1))
    /\ fac.nextId = 1 + Cardinality(DOMAIN fac.result[1].ids)

\* C25: two calls of get_cache_key with different (agency id, thread id)
\* pairs return different keys, whatever the agency ids and the thread ids
\* (absent, empty or not, with or without "/") are.
C25_DistinctPairsDistinctKeys ==
    (/\ probe.k1 # None /\ probe.k2 # None
     /\ <<probe.aid1, probe.t1>> # <<probe.aid2, probe.t2>>)
    => probe.k1 # probe.k2

\* the step in which the create_session of task t answers 200
SessionCreated(t) ==
    /\ req[t].handler = "session" /\ req'[t] = NoReq
    /\ http'.task = t /\ http'.status = 200

\* a step of the create_session handler of task t
SessionStep(t) ==
    /\ task[t].op = "session" /\ req[t].handler = "session"
    /\ task'[t] # task[t]

\* C26 (as claimed): when create_session answers 200 for agency a with the
\* new thread id th, the instance it registered is in the cache under key a
\* and under key a/th, and every session entry of a holds that instance.
C26_SessionSharesInstance ==
    [][\A t \in Tasks :
         SessionCreated(t) =>
            LET a == http'.aid
                i == http'.inst
            IN /\ Lookup(cache', get_cache_key(a, None)) = Some(i)
               /\ Lookup(cache', get_cache_key(a, http'.thread_id)) = Some(i)
               /\ \A th \in SessionThreadIds :
                     get_cache_key(a, Some(th)) \in DOMAIN cache' =>
                        cache'[get_cache_key(a, Some(th))] = i]_vars

\* C26 (amended): no step of create_session removes an entry of the cache or
\* replaces the instance under a key other than a/th; the instance the
\* handler goes on with is the one under key a when its get_agency ran; when
\* it answers 200 that instance is under key a/th; and it is under key a as
\* well if cache_agency did not have to wait for the lock.
C26_RegistersWithoutMoving ==
    [][\A t \in Tasks :
         LET a == req[t].aid
             bare == get_cache_key(a, None)
         IN /\ SessionStep(t) =>
                 \A k \in DOMAIN cache :
                    /\ k \in DOMAIN cache'
                    /\ cache'[k] # cache[k] =>
                          SessionCreated(t) /\ k = get_cache_key(a, http'.thread_id)
            /\ (SessionStep(t) /\ task[t].stage # "cache"
                  /\ (SessionCreated(t) \/ task'[t].stage = "cache")) =>
                 Lookup(cache, bare) =
                    Some(IF SessionCreated(t) THEN http'.inst ELSE task'[t].inst)
            /\ SessionCreated(t) =>
                 /\ http'.thread_id # None
                 /\ Lookup(cache', get_cache_key(a, http'.thread_id)) = Some(http'.inst)
                 /\ task[t].stage = "cache" => http'.inst = task[t].inst
                 /\ task[t].stage # "cache" => Lookup(cache', bare) = Some(http'.inst)]_vars

\* create_session has answered 200 after waiting for the lock in
\* cache_agency, and the entry under key a has been replaced meanwhile
C26_Witness ==
    /\ http.handler = "session" /\ http.status = 200 /\ http.thread_id # None
    /\ Lookup(cache, get_cache_key(http.aid, http.thread_id)) = Some(http.inst)
    /\ get_cache_key(http.aid, None) \in DOMAIN cache
    /\ cache[get_cache_key(http.aid, None)] # http.inst

\* ---------------------------------------------------------------------
\* SummarizeCode.run (custom_tools/summarize_code.py)

TruncateAt == 20000     \* len(output) > 20000
NoticeLen == 74         \* length of the notice appended to a cut output

\* the prefix of the user prompt, its two closing newlines written as a space
USER_PROMPT_PREFIX == "Summarize the code of each file below. "

StartPaths == {".", "src"}
FileExtensionSets == {{}, {".py"}}
Listings == {"", "a.py: x = 1", "b.py: y = 2"}
ApiErrors == {"API failed", "rate limit", "timeout"}
OutputLens == {0, 1, TruncateAt - 1, TruncateAt, TruncateAt + 1, 2 * TruncateAt}

\* a str the completion returned, by its length; notice tells whether the
\* truncation notice ends it
Output(n) == [len |-> n, notice |-> FALSE]

\* what a call of get_chat_completion ends with
Completions == {[err |-> Some(e), out |-> Output(0)] : e \in ApiErrors}
               \cup {[err |-> None, out |-> Output(n)] : n \in OutputLens}

\* if len(output) > 20000: output = output[:20000] + "\n\n... (truncated ...)"
Truncate(out) ==
    IF out.len > TruncateAt THEN [len |-> TruncateAt + NoticeLen, notice |-> TRUE] ELSE out

RunAfterCompletion_Swallows(c) ==
    [raised |-> None, ret |-> Some(IF c.err # None THEN Output(0) ELSE Truncate(c.out))]

\* run() after get_chat_completion: no try/except around the call, so
\* what it raises leaves run(); what it returns is cut and returned
RunAfterCompletion(c) ==
    IF c.err # None THEN [raised |-> c.err, ret |-> None]
    ELSE [raised |-> None, ret |-> Some(Truncate(c.out))]

\* SummarizeCode(start_path=p, file_extensions=x).run() is called
summarize_code_run(p, x) ==
    /\ summ.state = "none"
    /\ summ' = [summ EXCEPT !.state = "listing", !.path = p, !.exts = x]
    /\ UNCHANGED <<cache, locked, waiters, task, last, nextInst, nextGen, builtFor,
                   shadow, created, kept, req, http, probe, fac, db, resp, chat>>

\* PrintAllFilesInPath(...).run() returns the listing or raises; run goes
\* on to build the user prompt
print_all_files(listing, err) ==
    /\ summ.state = "listing"
    /\ summ' = IF err # None
                  THEN [summ EXCEPT !.state = "done", !.raised = err]
                  ELSE [summ EXCEPT !.state = "prompted",
                                    !.prompt = USER_PROMPT_PREFIX \o listing]
    /\ UNCHANGED <<cache, locked, waiters, task, last, nextInst, nextGen, builtFor,
                   shadow, created, kept, req, http, probe, fac, db, resp, chat>>

\* get_chat_completion(user_prompt=...) ends with c, and run() with it
get_chat_completion(c) ==
    /\ summ.state = "prompted"
    /\ summ' = [summ EXCEPT !.state = "done", !.api = Some(c),
                            !.raised = RunAfterCompletion(c).raised,
                            !.ret = RunAfterCompletion(c).ret]
    /\ UNCHANGED <<cache, locked, waiters, task, last, nextInst, nextGen, builtFor,
                   shadow, created, kept, req, http, probe, fac, db, resp, chat>>

SummInit ==
    /\ ManagerInit
    /\ RouterIdle
    /\ KeyIdle
    /\ FactoryIdle
    /\ StoreIdle
    /\ SummIdle
    /\ ChatIdle

SummNext ==
    \/ \E p \in StartPaths, x \in FileExtensionSets : summarize_code_run(p, x)
    \/ \E l \in Listings, e \in Opt({"ValueError"}) : print_all_files(l, e)
    \/ \E c \in Completions : get_chat_completion(c)

SummSpec == SummInit /\ [][SummNext]_vars

\* C24: whenever the completion call of a run raises, the run ends by
\* raising that very error and returns no summary; and a run returns a
\* summary only if its completion call returned one.
C24_CompletionErrorRaised ==
    /\ (summ.api # None /\ summ.api[1].err # None) =>
          /\ summ.state = "done"
          /\ summ.raised = summ.api[1].err
          /\ summ.ret = None
    /\ summ.ret # None => (summ.api # None /\ summ.api[1].err = None)

C24_Witness ==
    /\ summ.state = "done"
    /\ summ.api # None /\ summ.api[1].err = Some("API failed")
    /\ summ.raised = Some("API failed") /\ summ.ret = None

\* ---------------------------------------------------------------------
\* The tool, skill and agency routers over the configuration store
\* (routers/v1/api/tool.py, routers/api/v1/skill.py, routers/v1/api/agency.py)

MaxDocs == 1       \* documents ever added to the store
MaxVersion == 2    \* highest version of a tool or skill

StoreUsers == {"u1", "u2"}
Superusers == {"u2"}           \* the users with is_superuser

\* the id Firestore gives the n-th document added
DocId(n) == "d" \o ToString(n)

\* ids a request can name: those of added documents and of the template
DocIds == {DocId(n) : n \in 1..MaxDocs} \cup {"tpl"}

\* the agent configurations stored: g1 of u1, g2 of u2, g3 a template
\* without owner; g4 names no stored agent
StoredAgents ==
    Put(Put(Put(EmptyDict, "g1", [owner_id |-> Some("u1")]),
            "g2", [owner_id |-> Some("u2")]),
        "g3", [owner_id |-> None])

AgentIdLists == {<<>>, <<"g1">>, <<"g3">>, <<"g4">>, <<"g1", "g4">>, <<"g2", "g1">>}

\* request bodies; the handlers read the owner of a body for its truth
\* value only
BodyOwners == Opt({"u1"})
ToolBodies == [tool_id : Opt(DocIds), owner_id : BodyOwners]
SkillBodies == [id : Opt(DocIds), user_id : BodyOwners]
AgencyBodies == [agency_id : Opt(DocIds), owner_id : BodyOwners, agents : AgentIdLists]

\* save(config): a configuration without id is added as a new document,
\* whose id it takes; the document of its id is set to it.  n is the number
\* of the next document added.
Save(coll, id, rec, n) ==
    IF id = None
       THEN [coll |-> Put(coll, DocId(n), rec), id |-> DocId(n), next |-> n + 1]
       ELSE [coll |-> Put(coll, id[1], rec), id |-> id[1], next |-> n]

\* the response of a handler that wrote nothing and ran nothing
Refuse(op, u, id, status) ==
    [NoResp EXCEPT !.op = op, !.user = u, !.id = id, !.status = status]

\* --- tool router

ToolOwnerMismatch(stored, u) == stored.owner_id # Some(u)

ToolNotApproved_Never(rec) == FALSE

ToolNotApproved(rec) == ~rec.approved

\* POST /tool
create_tool_version(u, body) ==
    LET tool_id == IF ~Truthy(body.owner_id) THEN None ELSE body.tool_id
        loads == Truthy(body.owner_id) /\ Truthy(tool_id)
        tool_config_db == IF loads THEN Lookup(db.tool, tool_id[1]) ELSE None
        rec == [owner_id |-> Some(u),
                version |-> IF tool_config_db # None THEN tool_config_db[1].version + 1 ELSE 1,
                approved |-> FALSE]
        sv == Save(db.tool, tool_id, rec, db.nextDoc)
    IN /\ IF loads /\ tool_config_db = None
             THEN resp' = Refuse("create_tool_version", u, body.tool_id, 404) /\ UNCHANGED db
          ELSE IF loads /\ ToolOwnerMismatch(tool_config_db[1], u)
             THEN resp' = Refuse("create_tool_version", u, body.tool_id, 403) /\ UNCHANGED db
          ELSE /\ rec.version <= MaxVersion
               /\ sv.next <= MaxDocs + 1
               /\ db' = [db EXCEPT !.tool = sv.coll, !.nextDoc = sv.next]
               /\ resp' = [Refuse("create_tool_version", u, body.tool_id, 200)
                              EXCEPT !.saved = Some(sv.id)]
       /\ UNCHANGED <<cache, locked, waiters, task, last, nextInst, nextGen, builtFor,
                      shadow, created, kept, req, http, probe, fac, summ, chat>>

\* POST /tool/approve
approve_tool(u, id) ==
    LET tool_config == Lookup(db.tool, id)
    IN /\ IF u \notin Superusers
             THEN resp' = Refuse("approve_tool", u, Some(id), 403) /\ UNCHANGED db
          ELSE IF tool_config = None
             THEN resp' = Refuse("approve_tool", u, Some(id), 404) /\ UNCHANGED db
          ELSE /\ db' = [db EXCEPT !.tool =
                            Save(db.tool, Some(id), [tool_config[1] EXCEPT !.approved = TRUE],
                                 db.nextDoc).coll]
               /\ resp' = [Refuse("approve_tool", u, Some(id), 200) EXCEPT !.saved = Some(id)]
       /\ UNCHANGED <<cache, locked, waiters, task, last, nextInst, nextGen, builtFor,
                      shadow, created, kept, req, http, probe, fac, summ, chat>>

\* POST /tool/execute
execute_tool(u, id) ==
    LET tool_config == Lookup(db.tool, id)
    IN /\ resp' = IF tool_config = None
                     THEN Refuse("execute_tool", u, Some(id), 404)
                  ELSE IF /\ Truthy(tool_config[1].owner_id)
                          /\ tool_config[1].owner_id # Some(u)
                     THEN Refuse("execute_tool", u, Some(id), 403)
                  ELSE IF ToolNotApproved(tool_config[1])
                     THEN Refuse("execute_tool", u, Some(id), 403)
                  ELSE [Refuse("execute_tool", u, Some(id), 200) EXCEPT !.ran = TRUE]
       /\ UNCHANGED db
       /\ UNCHANGED <<cache, locked, waiters, task, last, nextInst, nextGen, builtFor,
                      shadow, created, kept, req, http, probe, fac, summ, chat>>

\* --- skill router

SkillOwnerMismatch_Never(stored, u) == FALSE

SkillOwnerMismatch(stored, u) == stored.user_id # Some(u)

SkillNotApproved(rec) == ~rec.approved

\* POST /skill
create_skill_version(u, body) ==
    LET id == IF ~Truthy(body.user_id) THEN None ELSE body.id
        loads == Truthy(id)
        skill_config_db == IF loads THEN Lookup(db.skill, id[1]) ELSE None
        rec == [user_id |-> Some(u),
                version |-> IF skill_config_db # None THEN skill_config_db[1].version + 1 ELSE 1,
                approved |-> FALSE]
        sv == Save(db.skill, id, rec, db.nextDoc)
    IN /\ IF loads /\ skill_config_db = None
             THEN resp' = Refuse("create_skill_version", u, body.id, 404) /\ UNCHANGED db
          ELSE IF loads /\ SkillOwnerMismatch(skill_config_db[1], u)
             THEN resp' = Refuse("create_skill_version", u, body.id, 403) /\ UNCHANGED db
          ELSE /\ rec.version <= MaxVersion
               /\ sv.next <= MaxDocs + 1
               /\ db' = [db EXCEPT !.skill = sv.coll, !.nextDoc = sv.next]
               /\ resp' = [Refuse("create_skill_version", u, body.id, 200)
                              EXCEPT !.saved = Some(sv.id)]
       /\ UNCHANGED <<cache, locked, waiters, task, last, nextInst, nextGen, builtFor,
                      shadow, created, kept, req, http, probe, fac, summ, chat>>

\* DELETE /skill
delete_skill(u, id) ==
    LET db_config == Lookup(db.skill, id)
    IN /\ IF db_config = None
             THEN resp' = Refuse("delete_skill", u, Some(id), 404) /\ UNCHANGED db
          ELSE IF SkillOwnerMismatch(db_config[1], u)
             THEN resp' = Refuse("delete_skill", u, Some(id), 403) /\ UNCHANGED db
          ELSE /\ db' = [db EXCEPT !.skill = [k \in (DOMAIN db.skill) \ {id} |-> db.skill[k]]]
               /\ resp' = Refuse("delete_skill", u, Some(id), 200)
       /\ UNCHANGED <<cache, locked, waiters, task, last, nextInst, nextGen, builtFor,
                      shadow, created, kept, req, http, probe, fac, summ, chat>>

\* POST /skill/approve
approve_skill(u, id) ==
    LET config == Lookup(db.skill, id)
    IN /\ IF u \notin Superusers
             THEN resp' = Refuse("approve_skill", u, Some(id), 403) /\ UNCHANGED db
          ELSE IF config = None
             THEN resp' = Refuse("approve_skill", u, Some(id), 404) /\ UNCHANGED db
          ELSE /\ db' = [db EXCEPT !.skill =
                            Save(db.skill, Some(id), [config[1] EXCEPT !.approved = TRUE],
                                 db.nextDoc).coll]
               /\ resp' = [Refuse("approve_skill", u, Some(id), 200) EXCEPT !.saved = Some(id)]
       /\ UNCHANGED <<cache, locked, waiters, task, last, nextInst, nextGen, builtFor,
                      shadow, created, kept, req, http, probe, fac, summ, chat>>

\* POST /skill/execute
execute_skill(u, id) ==
    LET config == Lookup(db.skill, id)
    IN /\ resp' = IF config = None
                     THEN Refuse("execute_skill", u, Some(id), 404)
                  ELSE IF Truthy(config[1].user_id) /\ config[1].user_id # Some(u)
                     THEN Refuse("execute_skill", u, Some(id), 403)
                  ELSE IF SkillNotApproved(config[1])
                     THEN Refuse("execute_skill", u, Some(id), 403)
                  ELSE [Refuse("execute_skill", u, Some(id), 200) EXCEPT !.ran = TRUE]
       /\ UNCHANGED db
       /\ UNCHANGED <<cache, locked, waiters, task, last, nextInst, nextGen, builtFor,
                      shadow, created, kept, req, http, probe, fac, summ, chat>>

\* --- agency router

AgencyOwnerMismatch(stored, u) == stored.owner_id # Some(u)

\* the loop over agency_config.agents: does it raise 403?  An id for which
\* get_agent returns nothing is passed over.
AgentsForbidden(agents, u) ==
    \E k \in DOMAIN agents :
        LET get_result == Lookup(db.agent, agents[k])
        IN get_result # None /\ get_result[1].owner_id # Some(u)

\* PUT /agency
update_or_create_agency(u, body) ==
    LET agency_id == IF ~Truthy(body.owner_id) THEN None ELSE body.agency_id
        loads == Truthy(body.owner_id) /\ Truthy(agency_id)
        agency_config_db == IF loads THEN Lookup(db.agency, agency_id[1]) ELSE None
        rec == [owner_id |-> Some(u), agents |-> body.agents]
        sv == Save(db.agency, agency_id, rec, db.nextDoc)
        answer(status) == [Refuse("update_or_create_agency", u, body.agency_id, status)
                              EXCEPT !.agents = body.agents]
    IN /\ IF loads /\ agency_config_db = None
             THEN resp' = answer(404) /\ UNCHANGED db
          ELSE IF loads /\ AgencyOwnerMismatch(agency_config_db[1], u)
             THEN resp' = answer(403) /\ UNCHANGED db
          ELSE IF AgentsForbidden(body.agents, u)
             THEN resp' = answer(403) /\ UNCHANGED db
          ELSE /\ sv.next <= MaxDocs + 1
               /\ db' = [db EXCEPT !.agency = sv.coll, !.nextDoc = sv.next]
               /\ resp' = [answer(200) EXCEPT !.saved = Some(sv.id), !.reached = TRUE]
       /\ UNCHANGED <<cache, locked, waiters, task, last, nextInst, nextGen, builtFor,
                      shadow, created, kept, req, http, probe, fac, summ, chat>>

\* a template (a record without owner) put into the store directly
Template(approved) == [owner_id |-> None, version |-> 1, approved |-> approved]
SkillTemplate(approved) == [user_id |-> None, version |-> 1, approved |-> approved]

StoreInit ==
    /\ ManagerInit
    /\ RouterIdle
    /\ KeyIdle
    /\ FactoryIdle
    /\ SummIdle
    /\ ChatIdle
    /\ resp = NoResp
    /\ \E tt \in {EmptyDict} \cup {Put(EmptyDict, "tpl", Template(b)) : b \in BOOLEAN},
          st \in {EmptyDict} \cup {Put(EmptyDict, "tpl", SkillTemplate(b)) : b \in BOOLEAN} :
          db = [NoDb EXCEPT !.tool = tt, !.skill = st, !.agent = StoredAgents]

StoreNext ==
    \E u \in StoreUsers :
        \/ \E body \in ToolBodies : create_tool_version(u, body)
        \/ \E id \in DocIds : approve_tool(u, id)
        \/ \E id \in DocIds : execute_tool(u, id)
        \/ \E body \in SkillBodies : create_skill_version(u, body)
        \/ \E id \in DocIds : delete_skill(u, id)
        \/ \E id \in DocIds : approve_skill(u, id)
        \/ \E id \in DocIds : execute_skill(u, id)
        \/ \E body \in AgencyBodies : update_or_create_agency(u, body)

StoreSpec == StoreInit /\ [][StoreNext]_vars

\* the records a step marks approved: approved afterwards, and not before
NewlyApproved(old, new) ==
    {k \in DOMAIN new : new[k].approved /\ (k \notin DOMAIN old \/ ~old[k].approved)}

\* C27: a version that create_tool_version or create_skill_version stores
\* is stored unapproved; a record becomes approved only in a step of
\* approve_tool / approve_skill called by a superuser for that record; a
\* tool or skill runs only in an execute request for a stored, approved
\* record; and an execute request for a stored record that is not approved
\* is answered 403 and runs nothing.
C27_ExecutableOnlyApproved ==
    [][/\ (resp'.op = "create_tool_version" /\ resp'.saved # None) =>
              ~db'.tool[resp'.saved[1]].approved
       /\ (resp'.op = "create_skill_version" /\ resp'.saved # None) =>
              ~db'.skill[resp'.saved[1]].approved
       /\ \A k \in NewlyApproved(db.tool, db'.tool) :
              resp'.op = "approve_tool" /\ resp'.id = Some(k) /\ resp'.user \in Superusers
       /\ \A k \in NewlyApproved(db.skill, db'.skill) :
              resp'.op = "approve_skill" /\ resp'.id = Some(k) /\ resp'.user \in Superusers
       /\ resp'.ran =>
              /\ resp'.op \in {"execute_tool", "execute_skill"}
              /\ LET coll == IF resp'.op = "execute_tool" THEN db.tool ELSE db.skill
                 IN resp'.id[1] \in DOMAIN coll /\ coll[resp'.id[1]].approved
       /\ (/\ resp'.op = "execute_tool"
           /\ resp'.id[1] \in DOMAIN db.tool /\ ~db.tool[resp'.id[1]].approved) =>
              resp'.status = 403 /\ ~resp'.ran
       /\ (/\ resp'.op = "execute_skill"
           /\ resp'.id[1] \in DOMAIN db.skill /\ ~db.skill[resp'.id[1]].approved) =>
              resp'.status = 403 /\ ~resp'.ran
      ]_vars

\* the owner's execute request for the second version of a tool, created
\* after the first was approved, has been answered 403
C27_Witness ==
    /\ resp.op = "execute_tool" /\ resp.status = 403 /\ ~resp.ran
    /\ resp.id # None /\ resp.id[1] \in DOMAIN db.tool
    /\ db.tool[resp.id[1]].owner_id = Some(resp.user)
    /\ db.tool[resp.id[1]].version = 2
    /\ ~db.tool[resp.id[1]].approved

\* the stored owner of a record of any collection
OwnerOf(rec) == IF "user_id" \in DOMAIN rec THEN rec.user_id ELSE rec.owner_id

\* the collection a handler writes
CollectionOf(d, op) ==
    IF op = "create_tool_version" THEN d.tool
    ELSE IF op \in {"create_skill_version", "delete_skill"} THEN d.skill
    ELSE d.agency

\* C28: a step of create_tool_version, create_skill_version or
\* update_or_create_agency that answers 404 or 403 writes nothing, and one
\* that succeeds writes one record, owned by the current user afterwards,
\* which either did not exist or was owned by the current user, and leaves
\* every other record as it was; delete_skill removes at most the record it
\* names, and only if its stored user_id is the current user.
C28_OnlyOwnRecordsWritten ==
    [][resp'.op \in {"create_tool_version", "create_skill_version",
                     "update_or_create_agency", "delete_skill"} =>
         LET u == resp'.user
             old == CollectionOf(db, resp'.op)
             new == CollectionOf(db', resp'.op)
         IN /\ resp'.status \in {200, 403, 404}
            /\ resp'.status # 200 => db' = db
            /\ \A d \in {"tool", "skill", "agency", "agent"} :
                  db'[d] # db[d] => db[d] = old /\ db'[d] = new
            /\ (resp'.status = 200 /\ resp'.op # "delete_skill") =>
                  /\ resp'.saved # None
                  /\ LET k == resp'.saved[1]
                     IN /\ k \in DOMAIN old =>
                             OwnerOf(old[k]) = Some(u) /\ resp'.id = Some(k)
                        /\ k \in DOMAIN new /\ OwnerOf(new[k]) = Some(u)
                        /\ \A j \in (DOMAIN old) \ {k} : j \in DOMAIN new /\ new[j] = old[j]
            /\ (resp'.status = 200 /\ resp'.op = "delete_skill") =>
                  /\ \A j \in DOMAIN new : j \in DOMAIN old /\ new[j] = old[j]
                  /\ \A j \in (DOMAIN old) \ (DOMAIN new) :
                        resp'.id = Some(j) /\ OwnerOf(old[j]) = Some(u)
      ]_vars

\* a user's create_skill_version naming the skill of another user has been
\* answered 403, the skill still being that of its owner
C28_Witness ==
    /\ resp.op = "create_skill_version" /\ resp.status = 403
    /\ resp.id # None /\ resp.id[1] \in DOMAIN db.skill
    /\ db.skill[resp.id[1]].user_id \in {Some(v) : v \in StoreUsers \ {resp.user}}

\* every agent id of the list names a stored agent whose owner is u
AllAgentsOwnedBy(agents, u) ==
    \A k \in DOMAIN agents :
        /\ agents[k] \in DOMAIN db.agent
        /\ db.agent[agents[k]].owner_id = Some(u)

\* C29: update_or_create_agency reaches the manager only if every agent id
\* of the configuration names an agent owned by the current user; otherwise
\* the request is refused (403, or 404 for an agency that is not stored)
\* and nothing is saved.
C29_ManagerOnlyWithOwnedAgents ==
    [][resp'.op = "update_or_create_agency" =>
         /\ resp'.reached => AllAgentsOwnedBy(resp'.agents, resp'.user)
         /\ ~AllAgentsOwnedBy(resp'.agents, resp'.user) =>
               /\ resp'.status \in {403, 404}
               /\ db' = db
      ]_vars

\* ---------------------------------------------------------------------
\* The /chat handler of the Flask backend (backend/main.py) and the run it
\* polls.  The handler is synchronous; the run is advanced by the assistants
\* runtime, outside the program.

MaxChats == 2        \* /chat requests answered
MaxRounds == 2       \* times one run requires action
MaxToolCalls == 2    \* tool calls of one required action

ChatThreadIds == Opt({"", "th1"})

\* the statuses after which the runtime no longer changes a run
TerminalStatuses == {"completed", "failed", "cancelled", "expired"}

\* the statuses the runtime can move a run to from status s
RunSuccessors(s) ==
    IF s = "queued" THEN {"in_progress", "failed", "cancelled", "expired"}
    ELSE IF s = "in_progress"
            THEN {"requires_action", "completed", "failed", "cancelled", "expired"}
    ELSE IF s = "requires_action" THEN {"cancelled", "expired"}
    ELSE {}

\* the runtime moves the run to status s; n tool calls if it requires action
runtime_step(s, n) ==
    /\ chat.pc # "idle"
    /\ s \in RunSuccessors(chat.run)
    /\ IF s = "requires_action"
          THEN /\ chat.rounds < MaxRounds
               /\ chat' = [chat EXCEPT !.run = s, !.calls = n, !.rounds = @ + 1]
          ELSE chat' = [chat EXCEPT !.run = s]
    /\ UNCHANGED <<cache, locked, waiters, task, last, nextInst, nextGen, builtFor,
                   shadow, created, kept, req, http, probe, fac, db, resp, summ>>

\* `if run_status.status == "completed": break`
LoopExits(status) == status = "completed"

\* POST /chat up to the creation of the run
chat_request(th) ==
    /\ chat.pc = "idle"
    /\ chat.served < MaxChats
    /\ chat' = IF ~Truthy(th)
                  THEN [chat EXCEPT !.thread_id = th, !.run = "none", !.calls = 0, !.rounds = 0,
                                    !.answered = 400, !.served = @ + 1]
                  ELSE [chat EXCEPT !.pc = "poll", !.thread_id = th, !.run = "queued",
                                    !.calls = 0, !.rounds = 0, !.answered = 0]
    /\ UNCHANGED <<cache, locked, waiters, task, last, nextInst, nextGen, builtFor,
                   shadow, created, kept, req, http, probe, fac, db, resp, summ>>

\* one pass of `while True`: retrieve the run; leave the loop and answer, or
\* turn to the tool calls, or go round again
chat_poll ==
    /\ chat.pc = "poll"
    /\ chat' = IF LoopExits(chat.run)
                  THEN [chat EXCEPT !.pc = "idle", !.answered = 200, !.served = @ + 1]
               ELSE IF chat.run = "requires_action"
                  THEN [chat EXCEPT !.pc = "tools"]
               ELSE chat
    /\ UNCHANGED <<cache, locked, waiters, task, last, nextInst, nextGen, builtFor,
                   shadow, created, kept, req, http, probe, fac, db, resp, summ>>

\* handle_action and submit_tool_outputs for one tool call; the runtime
\* takes the run up again after the last output, and refuses outputs for a
\* run that no longer requires action (the handler ends with that error)
chat_submit ==
    /\ chat.pc = "tools" /\ chat.calls > 0
    /\ chat' = IF chat.run = "requires_action"
                  THEN [chat EXCEPT !.calls = @ - 1,
                                    !.run = IF chat.calls = 1 THEN "queued" ELSE @]
                  ELSE [chat EXCEPT !.pc = "idle", !.calls = 0, !.answered = 500,
                                    !.served = @ + 1]
    /\ UNCHANGED <<cache, locked, waiters, task, last, nextInst, nextGen, builtFor,
                   shadow, created, kept, req, http, probe, fac, db, resp, summ>>

\* time.sleep(1) after the tool calls, then the next pass
chat_sleep ==
    /\ chat.pc = "tools" /\ chat.calls = 0
    /\ chat' = [chat EXCEPT !.pc = "poll"]
    /\ UNCHANGED <<cache, locked, waiters, task, last, nextInst, nextGen, builtFor,
                   shadow, created, kept, req, http, probe, fac, db, resp, summ>>

ChatInit ==
    /\ ManagerInit
    /\ RouterIdle
    /\ KeyIdle
    /\ FactoryIdle
    /\ StoreIdle
    /\ SummIdle
    /\ ChatIdle

ChatNext ==
    \/ \E th \in ChatThreadIds : chat_request(th)
    \/ chat_poll
    \/ chat_submit
    \/ chat_sleep
    \/ \E s \in TerminalStatuses \cup {"in_progress", "requires_action"},
          n \in 1..MaxToolCalls : runtime_step(s, n)

\* the handler's thread keeps running, and the runtime brings every run to
\* a terminal status
ChatFairness ==
    /\ WF_vars(chat_poll)
    /\ WF_vars(chat_submit)
    /\ WF_vars(chat_sleep)
    /\ WF_vars(\E s \in TerminalStatuses \cup {"in_progress", "requires_action"},
                  n \in 1..MaxToolCalls : runtime_step(s, n))

ChatFairSpec == ChatInit /\ [][ChatNext]_vars /\ ChatFairness

\* C30: every /chat request that created a run is eventually answered.
C30_ChatTerminates == (chat.pc # "idle") ~> (chat.pc = "idle")

====
